---- MODULE Spec2Model ----
(***************************************************************************)
(* Model of the Salus iT500 bridge: the SalusThermostat climate entity     *)
(* (custom_components/salus/climate.py) with its token lifecycle, status   *)
(* read and set operations, and the heating-time accumulators              *)
(* (custom_components/salusfy/sensor.py).                                  *)
(*                                                                         *)
(* Python values: an optional value is a sequence, None == << >> and a     *)
(* present value x is << x >>.  Temperatures are in tenths of a degree,    *)
(* clock readings in seconds.  A JSON value is held as its JSON text.      *)
(***************************************************************************)
EXTENDS Integers, Sequences, FiniteSets, TLC

VARIABLES
    now,                    \* the wall clock, seconds (time.time())
    ticks,                  \* number of clock advances so far (bounded)
    token,                  \* self._token
    token_timestamp,        \* self._token_timestamp
    current_temperature,    \* self._current_temperature
    target_temperature,     \* self._target_temperature
    current_operation_mode, \* self._current_operation_mode
    heat_onoff_status_raw,  \* self._heat_onoff_status_raw
    is_heating,             \* self._is_heating
    status,                 \* self._status
    pc,                     \* per executor thread: position in the running call
    loc,                    \* per executor thread: the running call's locals and trace
    thermostat_state,       \* StareTermostatSensor._state
    heater_history,         \* StatisticaCentralaSensor: hours_heating, last_update, last_state
    yesterday_history,      \* StatisticaCentralaIeriSensor: state, today_heating, last_update, last_state
    heating_time,           \* DurataIncalzireSensor: hours_heating, last_update, last_state
    scans,                  \* the sensor polls so far: clock reading and climate state seen
    reference,              \* the accumulators as they would be had Home Assistant never restarted
    restarts,               \* number of Home Assistant restarts so far (bounded)
    persisted_bad,          \* per restoring sensor: the persisted value the latest restore could not parse, or "none"
    init_failed,            \* the sensors whose async_added_to_hass raised at the latest restart
    ctrl_html,              \* the control page last searched for a token
    extracted,              \* the token found in ctrl_html, or None
    last_refresh            \* how get_token ended in the call before: "none", "ok", "failed"

thermo == <<token, token_timestamp, current_temperature, target_temperature,
            current_operation_mode, heat_onoff_status_raw, is_heating, status>>

sensors == <<thermostat_state, heater_history, yesterday_history, heating_time,
             scans, reference, restarts, persisted_bad, init_failed>>

page == <<ctrl_html, extracted>>

vars == <<now, ticks, token, token_timestamp, current_temperature,
          target_temperature, current_operation_mode, heat_onoff_status_raw,
          is_heating, status, pc, loc, thermostat_state, heater_history,
          yesterday_history, heating_time, scans, reference, restarts, persisted_bad,
          init_failed, ctrl_html,
          extracted, last_refresh>>

-----------------------------------------------------------------------------
(* Bounds of the model *)

StartTime == 79200
MaxTicks == 3
NumThreads == 2
MaxScans == 3
MaxRestarts == 1

(* Program constants *)

TokenMaxAge == 3600
ScanInterval == 15

-----------------------------------------------------------------------------
(* Python values *)

None == << >>
Some(x) == << x >>
Val(o) == o[1]

Threads == 1..NumThreads

\* clock advances: one second, or one second short of the token lifetime
TickSteps == {1, TokenMaxAge - 1}

Tokens == {"tokA", "tokB"}

\* `not self._token`: None and the empty string are falsy
NotToken(tk) == tk = None \/ tk = Some("")

\* `self._token_timestamp or 0`
OrZero(ts) == IF ts = None \/ ts = Some(0) THEN 0 ELSE Val(ts)

-----------------------------------------------------------------------------
(* HTTP responses of the portal *)

Resp(s) == [exc |-> FALSE, status |-> s]
Raised == [exc |-> TRUE, status |-> 0]

\* a transport exception, or a response with one of these status codes
Responses == {Raised} \cup {Resp(s) : s \in {200, 204, 302, 500}}

\* `not resp`: requests.Response is truthy when status_code < 400
Falsy(r) == r.status >= 400

\* faulty variant: every login answer that is not an error status is accepted
LoginRejected_ErrorsOnly(r) == Falsy(r)

\* `not login_resp or login_resp.status_code not in (200, 302)`
LoginRejected(r) == Falsy(r) \/ r.status \notin {200, 302}

\* `not r or r.status_code != 200`
Not200(r) == Falsy(r) \/ r.status # 200

-----------------------------------------------------------------------------
(* Token extraction from the control page.  A page is a sequence of         *)
(* fragments, left to right; a fragment matches one of the five patterns    *)
(* (pat 1..5, in the order of the `patterns` list) or none (pat 0), and     *)
(* carries the text its first capture group would capture.                  *)

NumPatterns == 5
MaxFragments == 2

Fragments == [pat : 0..NumPatterns, val : Tokens]

Pages == UNION {[1..n -> Fragments] : n \in 0..MaxFragments}

\* re.search(pat, html): the leftmost fragment matching pattern p, or None
Search(p, html) ==
    LET hits == {i \in 1..Len(html) : html[i].pat = p}
    IN  IF hits = {} THEN None
        ELSE Some(html[CHOOSE i \in hits : \A j \in hits : i <= j].val)

\* the for loop over `patterns`: the first pattern that matches wins
RECURSIVE ExtractFrom(_, _)
ExtractFrom(p, html) ==
    IF p > NumPatterns THEN None
    ELSE IF Search(p, html) # None THEN Search(p, html)
    ELSE ExtractFrom(p + 1, html)

\* faulty variant: the leftmost match of any pattern wins
ExtractToken_Leftmost(html) ==
    LET hits == {i \in 1..Len(html) : html[i].pat # 0}
    IN  IF hits = {} THEN None
        ELSE Some(html[CHOOSE i \in hits : \A j \in hits : i <= j].val)

\* get_token lines 207-212: the token found in the control page, or None
ExtractToken(html) == ExtractFrom(1, html)

\* what the extraction yields over all pages
Extractions == {ExtractToken(html) : html \in Pages}

-----------------------------------------------------------------------------
(* The JSON body of the status response.  A value is held as its JSON      *)
(* text: "\"1\"" is the string "1", "1" the number 1, "null" is null;      *)
(* Missing marks a key the object does not have.                           *)

Missing == "<missing>"

SetPointVals == {"\"18.5\"", "\"21.0\"", "\"abc\"", Missing}
RoomTempVals == {"20", "\"abc\"", Missing}
FlagVals == {"\"1\"", "\"0\"", "1", Missing}

\* kind: "dict" a JSON object, "nonjson" a body r.json() cannot parse,
\* "null" a falsy JSON document, "list" a non-empty JSON array
AllDictBodies == [kind : {"dict"}, CH1currentSetPoint : SetPointVals,
                  CH1currentRoomTemp : RoomTempVals, CH1heatOnOff : FlagVals,
                  CH1heatOnOffStatus : FlagVals]

\* the objects the portal answers with: every pair of temperatures with the
\* device on and idle, every pair of flags with both temperatures present,
\* and the empty object
DictBodies ==
    {b \in AllDictBodies :
        \/ b.CH1heatOnOff = "\"0\"" /\ b.CH1heatOnOffStatus = "\"0\""
        \/ b.CH1currentSetPoint = "\"21.0\"" /\ b.CH1currentRoomTemp = "20"
        \/ /\ b.CH1heatOnOff = Missing /\ b.CH1heatOnOffStatus = Missing
           /\ b.CH1currentSetPoint = Missing /\ b.CH1currentRoomTemp = Missing}

OtherBody(k) == [kind |-> k, CH1currentSetPoint |-> Missing,
                 CH1currentRoomTemp |-> Missing, CH1heatOnOff |-> Missing,
                 CH1heatOnOffStatus |-> Missing]

Bodies == DictBodies \cup {OtherBody(k) : k \in {"nonjson", "null", "list"}}

\* `not data`: an object without keys, or a falsy document replaced by {}
EmptyData(b) ==
    \/ b.kind = "null"
    \/ /\ b.kind = "dict"
       /\ b.CH1currentSetPoint = Missing /\ b.CH1currentRoomTemp = Missing
       /\ b.CH1heatOnOff = Missing /\ b.CH1heatOnOffStatus = Missing

\* data.get(key): JSON null for a missing key
Get(v) == IF v = Missing THEN "null" ELSE v

\* data.get(key, default)
GetDefault(v, default) == IF v = Missing THEN default ELSE v

\* str(value) of a decoded JSON value
Str(v) ==
    CASE v = "\"1\"" -> "1"
      [] v = "\"0\"" -> "0"
      [] v = "1"     -> "1"
      [] v = "0"     -> "0"
      [] v = "null"  -> "None"
      [] OTHER       -> v

\* float(value) inside try/except: the number in tenths, None when float() raises
ParseFloat(v) ==
    CASE v = "\"18.5\"" -> Some(185)
      [] v = "\"21.0\"" -> Some(210)
      [] v = "20"       -> Some(200)
      [] OTHER          -> None

\* faulty variant: a missing CH1heatOnOff defaults to "0"
ModeOf_DefaultOn(b) ==
    IF Str(GetDefault(b.CH1heatOnOff, "\"0\"")) = "1" THEN "OFF" ELSE "ON"

\* "OFF" if str(data.get("CH1heatOnOff", "1")) == "1" else "ON"
ModeOf(b) == IF Str(GetDefault(b.CH1heatOnOff, "\"1\"")) = "1" THEN "OFF" ELSE "ON"

\* str(data.get("CH1heatOnOffStatus", "0"))
RawStatusOf(b) == Str(GetDefault(b.CH1heatOnOffStatus, "\"0\""))

-----------------------------------------------------------------------------
(* Executor threads.  A call runs in steps that end at a blocking HTTP     *)
(* request; loc[t] holds the call's arguments and what it has sent.        *)

\* op, temperature, off: the call and its arguments; cur_timestamp: the clock
\* read at its start; start_token, start_timestamp: the session it found;
\* refresh: what its get_token() did; log: the requests it sent, in order;
\* data: the status body it mapped; result: how it ended ("ok", "fail" a
\* logged error, "raised" an exception that left the call)
IdleLoc == [op |-> "none", temperature |-> None, off |-> FALSE,
            cur_timestamp |-> 0, start_token |-> None, start_timestamp |-> None,
            refresh |-> "none", login_resp |-> None, log |-> << >>, data |-> None,
            result |-> "none"]

NewLoc(op, temperature, off) ==
    [op |-> op, temperature |-> temperature, off |-> off,
     cur_timestamp |-> now, start_token |-> token,
     start_timestamp |-> token_timestamp,
     refresh |-> "none", login_resp |-> None, log |-> << >>, data |-> None,
     result |-> "none"]

Req(kind, tk, age, heatOnOff, setPoint) ==
    [req |-> kind, token |-> tk, age |-> age, heatOnOff |-> heatOnOff,
     currentSetPoint |-> setPoint]

AllIdle == \A t \in Threads : pc[t] = "idle"

\* where get_token returns to: _get_data line 264 or _set_data line 236
AfterGetToken(t) == IF loc[t].op = "update" THEN "gd_send" ELSE "sd_send"

UserTemps == {185, 210}

\* the sensors as constructed at clock reading t0: sensor.py lines 54,
\* 86-88, 142-145, 210-212
NewSensors(t0) ==
    /\ thermostat_state = "unknown"
    /\ heater_history = [hours_heating |-> 0, last_update |-> t0,
                         last_state |-> "unknown"]
    /\ yesterday_history = [state |-> 0, today_heating |-> 0, last_update |-> t0,
                            last_state |-> "unknown"]
    /\ heating_time = [hours_heating |-> 0, last_update |-> t0,
                       last_state |-> "unknown"]
    /\ scans = << >>
    /\ reference = [heater_history |-> heater_history,
                    yesterday_history |-> yesterday_history,
                    heating_time |-> heating_time]
    /\ restarts = 0
    /\ persisted_bad = [heater_history |-> "none", yesterday_history |-> "none"]
    /\ init_failed = {}

\* no control page has been fetched and no call has run
NoCalls ==
    /\ ctrl_html = << >>
    /\ extracted = None
    /\ last_refresh = "none"

Init ==
    /\ now = StartTime
    /\ ticks = 0
    /\ NewSensors(StartTime)
    /\ NoCalls
    /\ token = None
    /\ token_timestamp = None
    /\ current_temperature = None
    /\ target_temperature = None
    /\ current_operation_mode = None
    /\ heat_onoff_status_raw = None
    /\ is_heating = None
    /\ status = None
    /\ pc = [t \in Threads |-> "idle"]
    /\ loc = [t \in Threads |-> IdleLoc]

\* the clock advances: by any step between calls, by a second during a call
Tick(steps) ==
    /\ ticks < MaxTicks
    /\ \E d \in (IF AllIdle THEN steps ELSE {1}) : now' = now + d
    /\ ticks' = ticks + 1
    /\ UNCHANGED <<thermo, pc, loc, sensors, page, last_refresh>>

\* faulty variant: only a token that is held can expire; without one no
\* refresh is asked for
TokenExpired_OnlyWhenHeld(tk, ts, cur_timestamp) ==
    tk # None /\ (cur_timestamp - OrZero(ts)) > TokenMaxAge

\* faulty variant: a token aged exactly TokenMaxAge already counts as expired
TokenExpired_AtLeast(tk, ts, cur_timestamp) ==
    tk = None \/ (cur_timestamp - OrZero(ts)) >= TokenMaxAge

\* _get_data line 260: the refresh condition
TokenExpired(tk, ts, cur_timestamp) ==
    tk = None \/ (cur_timestamp - OrZero(ts)) > TokenMaxAge

\* update() -> _get_data(), lines 256-262
Update(t) ==
    /\ pc[t] = "idle"
    /\ loc' = [loc EXCEPT ![t] = NewLoc("update", None, FALSE)]
    /\ pc' = [pc EXCEPT ![t] = IF TokenExpired(token, token_timestamp, now)
                               THEN "gt_login" ELSE "gd_send"]
    /\ UNCHANGED <<page, last_refresh, sensors, now, ticks, thermo>>

\* _set_data lines 233-234: a write asks for a token only when it holds none
EnterSetData(t) ==
    pc' = [pc EXCEPT ![t] = IF NotToken(token) THEN "gt_login" ELSE "sd_send"]

\* set_temperature(temperature=temp), lines 154-158
SetTemperature(t) ==
    /\ pc[t] = "idle"
    /\ \E temp \in UserTemps :
        /\ target_temperature' = Some(temp)
        /\ loc' = [loc EXCEPT ![t] = NewLoc("set_temperature", Some(temp), FALSE)]
    /\ EnterSetData(t)
    /\ UNCHANGED <<page, last_refresh, sensors, now, ticks, token, token_timestamp, current_temperature,
                   current_operation_mode, heat_onoff_status_raw, is_heating, status>>

\* set_temperature() without a temperature: nothing happens
SetTemperatureNone(t) ==
    /\ pc[t] = "idle"
    /\ loc' = [loc EXCEPT ![t] = [NewLoc("set_temperature", None, FALSE)
                                  EXCEPT !.result = "noop"]]
    /\ pc' = [pc EXCEPT ![t] = "done"]
    /\ UNCHANGED <<page, last_refresh, sensors, now, ticks, thermo>>

\* turn_off(), lines 160-162
TurnOff(t) ==
    /\ pc[t] = "idle"
    /\ current_operation_mode' = Some("OFF")
    /\ loc' = [loc EXCEPT ![t] = NewLoc("turn_off", target_temperature, TRUE)]
    /\ EnterSetData(t)
    /\ UNCHANGED <<page, last_refresh, sensors, now, ticks, token, token_timestamp, current_temperature,
                   target_temperature, heat_onoff_status_raw, is_heating, status>>

\* turn_on(), lines 164-166
TurnOn(t) ==
    /\ pc[t] = "idle"
    /\ current_operation_mode' = Some("ON")
    /\ loc' = [loc EXCEPT ![t] = NewLoc("turn_on", target_temperature, FALSE)]
    /\ EnterSetData(t)
    /\ UNCHANGED <<page, last_refresh, sensors, now, ticks, token, token_timestamp, current_temperature,
                   target_temperature, heat_onoff_status_raw, is_heating, status>>

\* leave the call: the executor job ends
Finish(t, result) ==
    /\ pc' = [pc EXCEPT ![t] = "done"]
    /\ loc' = [loc EXCEPT ![t].result = result]

Sent(t, r) == [loc EXCEPT ![t].log = Append(@, r)]

TokenAge == now - OrZero(token_timestamp)

\* get_token() lines 185-188: the login POST and its check; a transport
\* exception is caught at line 224
Login(t) ==
    /\ pc[t] = "gt_login"
    /\ \E r \in Responses :
        LET login_resp == IF r.exc THEN None ELSE Some(r.status)
        IN  IF r.exc \/ LoginRejected(r)
            THEN /\ loc' = [Sent(t, Req("login", None, 0, None, None))
                                EXCEPT ![t].refresh = "failed",
                                       ![t].login_resp = login_resp]
                 /\ pc' = [pc EXCEPT ![t] = AfterGetToken(t)]
            ELSE /\ loc' = [Sent(t, Req("login", None, 0, None, None))
                                EXCEPT ![t].login_resp = login_resp]
                 /\ pc' = [pc EXCEPT ![t] = "gt_control"]
    /\ UNCHANGED <<page, last_refresh, sensors, now, ticks, thermo>>

\* faulty variant: a failed refresh forgets the session it had
StoreToken_ClearOnFailure(r, x, tk, ts, clock) ==
    IF r.exc \/ Not200(r) \/ NotToken(x)
    THEN <<None, None>>
    ELSE <<x, Some(clock)>>

\* what get_token() stores for a control response r whose page yields the
\* extraction x: lines 192-221, <<token, token_timestamp>> after the call
StoreToken(r, x, tk, ts, clock) ==
    IF r.exc \/ Not200(r) \/ NotToken(x)
    THEN <<tk, ts>>
    ELSE <<x, Some(clock)>>

\* what the page of a control response can yield: a failed response has no
\* page that is read
ExtractionsOf(r) == IF r.exc \/ Not200(r) THEN {None} ELSE Extractions

\* get_token() lines 191-225: the control page GET, the token extraction
\* and the store
Control(t) ==
    /\ pc[t] = "gt_control"
    /\ \E r \in Responses : \E x \in ExtractionsOf(r) :
        LET ok == ~(r.exc \/ Not200(r) \/ NotToken(x))
            st == StoreToken(r, x, token, token_timestamp, now)
        IN  /\ token' = st[1]
            /\ token_timestamp' = st[2]
            /\ loc' = [Sent(t, Req("control", None, 0, None, None))
                           EXCEPT ![t].refresh = IF ok THEN "ok" ELSE "failed"]
    /\ pc' = [pc EXCEPT ![t] = AfterGetToken(t)]
    /\ UNCHANGED <<page, last_refresh, sensors, now, ticks, current_temperature, target_temperature,
                   current_operation_mode, heat_onoff_status_raw, is_heating, status>>

\* _get_data lines 264-268: the token check and the status GET
GetDataSend(t) ==
    /\ pc[t] = "gd_send"
    /\ IF ~NotToken(token)
       THEN /\ loc' = Sent(t, Req("get", token, TokenAge, None, None))
            /\ pc' = [pc EXCEPT ![t] = "gd_recv"]
       ELSE Finish(t, "fail")
    /\ UNCHANGED <<page, last_refresh, sensors, now, ticks, thermo>>

\* faulty variant: a temperature that cannot be parsed fails the whole read
ReadOutcome_StrictTemps(r, b) ==
    IF r.exc THEN "raised"
    ELSE IF Not200(r) THEN "fail"
    ELSE IF b.kind = "nonjson" THEN "raised"
    ELSE IF EmptyData(b) THEN "fail"
    ELSE IF b.kind = "list" THEN "raised"
    ELSE IF ParseFloat(Get(b.CH1currentSetPoint)) = None
            \/ ParseFloat(Get(b.CH1currentRoomTemp)) = None THEN "fail"
    ELSE "ok"

\* how _get_data ends for status response r with body b: lines 268-297
ReadOutcome(r, b) ==
    IF r.exc THEN "raised"                    \* session.get raises
    ELSE IF Not200(r) THEN "fail"             \* line 269
    ELSE IF b.kind = "nonjson" THEN "raised"  \* r.json() raises
    ELSE IF EmptyData(b) THEN "fail"          \* line 274
    ELSE IF b.kind = "list" THEN "raised"     \* data.get on a list raises
    ELSE "ok"

\* the bodies a status response can carry: a failed one carries none we read
BodiesOf(r, bodies) == IF r.exc \/ Not200(r) THEN {OtherBody("null")} ELSE bodies

\* _get_data lines 268-297: the status response, its body one of `bodies`,
\* and the field mapping
GetDataRecv(t, bodies) ==
    /\ pc[t] = "gd_recv"
    /\ \E r \in Responses : \E b \in BodiesOf(r, bodies) :
        /\ pc' = [pc EXCEPT ![t] = "done"]
        /\ loc' = [loc EXCEPT ![t].result = ReadOutcome(r, b),
                              ![t].data = IF ~r.exc /\ ~Not200(r) /\ b.kind = "dict"
                                          THEN Some(b) ELSE None]
        /\ IF ReadOutcome(r, b) = "ok"
           THEN /\ target_temperature' = ParseFloat(Get(b.CH1currentSetPoint))
                /\ current_temperature' = ParseFloat(Get(b.CH1currentRoomTemp))
                /\ current_operation_mode' = Some(ModeOf(b))
                /\ heat_onoff_status_raw' = Some(RawStatusOf(b))
                /\ is_heating' = Some(RawStatusOf(b) = "1")
                /\ status' = Some(IF RawStatusOf(b) = "1" THEN "ON" ELSE "OFF")
           ELSE UNCHANGED <<current_temperature, target_temperature,
                            current_operation_mode, heat_onoff_status_raw,
                            is_heating, status>>
    /\ UNCHANGED <<page, last_refresh, sensors, now, ticks, token, token_timestamp>>

\* faulty variant: the off flag is not passed on to the payload
HeatOnOff_AlwaysOn(off) == "0"

\* _set_data line 241
HeatOnOff(off) == IF off THEN "1" ELSE "0"

\* _set_data lines 236-250: the token check and the set POST
SetDataSend(t) ==
    /\ pc[t] = "sd_send"
    /\ IF NotToken(token)
       THEN Finish(t, "fail")
       ELSE /\ loc' = Sent(t, Req("set", token, TokenAge,
                                  Some(HeatOnOff(loc[t].off)), loc[t].temperature))
            /\ pc' = [pc EXCEPT ![t] = "sd_recv"]
    /\ UNCHANGED <<page, last_refresh, sensors, now, ticks, thermo>>

\* faulty variant: a set POST that was not answered with 200 rolls back what the
\* command recorded locally
SetDataRecv_Rollback(t) ==
    /\ pc[t] = "sd_recv"
    /\ \E r \in Responses :
        /\ Finish(t, IF r.exc THEN "raised" ELSE IF Not200(r) THEN "fail" ELSE "ok")
        /\ IF r.exc \/ Not200(r)
           THEN target_temperature' = None /\ current_operation_mode' = None
           ELSE UNCHANGED <<target_temperature, current_operation_mode>>
    /\ UNCHANGED <<page, last_refresh, sensors, now, ticks, token, token_timestamp, current_temperature,
                   heat_onoff_status_raw, is_heating, status>>

\* _set_data lines 250-252: the answer to the set POST
SetDataRecv(t) ==
    /\ pc[t] = "sd_recv"
    /\ \E r \in Responses :
        Finish(t, IF r.exc THEN "raised" ELSE IF Not200(r) THEN "fail" ELSE "ok")
    /\ UNCHANGED <<page, last_refresh, sensors, now, ticks, thermo>>

\* the call has returned to the scheduler
Return(t) ==
    /\ pc[t] = "done"
    /\ pc' = [pc EXCEPT ![t] = "idle"]
    /\ loc' = [loc EXCEPT ![t] = IdleLoc]
    /\ last_refresh' = loc[t].refresh
    /\ UNCHANGED <<page, sensors, now, ticks, thermo>>

\* a running call's next step
Run(t, bodies) ==
    \/ Login(t)
    \/ Control(t)
    \/ GetDataSend(t)
    \/ GetDataRecv(t, bodies)
    \/ SetDataSend(t)
    \/ SetDataRecv(t)

Step(t, bodies) == Run(t, bodies) \/ Return(t)

\* the scheduler starts a call on a free executor thread
Start(t) ==
    \/ Update(t)
    \/ SetTemperature(t)
    \/ SetTemperatureNone(t)
    \/ TurnOff(t)
    \/ TurnOn(t)

\* calls run one at a time, each on the first executor thread
Next ==
    \/ Tick(TickSteps)
    \/ AllIdle /\ Start(1)
    \/ \E t \in Threads : Step(t, Bodies)

Spec == Init /\ [][Next]_vars

\* get_token lines 196-212 on their own: a control page arrives and is
\* searched for the token
ParseControlPage ==
    /\ \E h \in Pages :
        /\ ctrl_html' = h
        /\ extracted' = ExtractToken(h)
    /\ UNCHANGED <<now, ticks, thermo, pc, loc, sensors, last_refresh>>

NextExtract == ParseControlPage

SpecExtract == Init /\ [][NextExtract]_vars

\* the session and snapshot a successful read left behind, the token obtained
\* more than TokenMaxAge ago
InitExpired ==
    /\ token = Some("tokA")
    /\ token_timestamp = Some(StartTime - TokenMaxAge - 1)
    /\ current_temperature = Some(200)
    /\ target_temperature = Some(210)
    /\ current_operation_mode = Some("ON")
    /\ heat_onoff_status_raw = Some("0")
    /\ is_heating = Some(FALSE)
    /\ status = Some("OFF")

\* a fresh entity, or one whose token has expired; no call is running
InitConcurrent ==
    /\ now = StartTime
    /\ ticks = 0
    /\ NewSensors(StartTime)
    /\ NoCalls
    /\ \/ /\ token = None
          /\ token_timestamp = None
          /\ current_temperature = None
          /\ target_temperature = None
          /\ current_operation_mode = None
          /\ heat_onoff_status_raw = None
          /\ is_heating = None
          /\ status = None
       \/ InitExpired
    /\ pc = [t \in Threads |-> "idle"]
    /\ loc = [t \in Threads |-> IdleLoc]

\* a poll and a user command, each on its own executor thread, overlap freely;
\* every thread runs one call, and the clock stands still while they overlap
NextConcurrent ==
    \/ \E t \in Threads : Start(t)
    \/ \E t \in Threads : Run(t, Bodies)

SpecConcurrent == InitConcurrent /\ [][NextConcurrent]_vars

-----------------------------------------------------------------------------
(* The heating-time sensors (sensor.py).  Totals are held in seconds: a     *)
(* total of 3600 is 1.0 hour.                                               *)

DayLength == 86400

\* datetime.date(): the local calendar day of a clock reading
Date(clock) == clock \div DayLength

\* sensor polls advance in steps of half an hour or an hour
SensorTickSteps == {1800, 3600}

\* hass.states.get("climate.salus_thermostat"): no state object, a state
\* without the hvac_action attribute, or a state with it
ClimateStates == {"<absent>", "<noattr>", "heating", "idle", "off"}

\* attributes.get("hvac_action", STATE_UNKNOWN), or `absent` without a state
HvacAction(c, absent) ==
    IF c = "<absent>" THEN absent
    ELSE IF c = "<noattr>" THEN "unknown"
    ELSE c

\* hvac_mode, lines 116-120
HvacMode(mode) == IF mode = Some("OFF") THEN "off" ELSE "heat"

\* faulty variant: the device's heating flag is consulted before the mode
HvacActionOf_DeviceFirst(mode, heating, current, target) ==
    IF heating # None THEN (IF Val(heating) THEN "heating" ELSE "idle")
    ELSE IF HvacMode(mode) = "off" THEN "off"
    ELSE IF target # None /\ current # None
    THEN (IF Val(current) < Val(target) THEN "heating" ELSE "idle")
    ELSE "idle"

\* hvac_action, lines 126-144, of an entity with these fields
HvacActionOf(mode, heating, current, target) ==
    IF HvacMode(mode) = "off" THEN "off"
    ELSE IF heating # None THEN (IF Val(heating) THEN "heating" ELSE "idle")
    ELSE IF target # None /\ current # None
    THEN (IF Val(current) < Val(target) THEN "heating" ELSE "idle")
    ELSE "idle"

\* StareTermostatSensor.update, lines 60-66
StareTermostatUpdate(c) == HvacAction(c, "unavailable")

\* faulty variant: the interval is credited when the newly observed state is heating
HeaterHistoryUpdate_ByNewState(s, clock, hvac_action) ==
    LET kept == IF Date(clock) # Date(s.last_update) THEN 0 ELSE s.hours_heating
        time_diff == clock - s.last_update
    IN  [hours_heating |-> IF hvac_action = "heating"
                           THEN kept + time_diff ELSE kept,
         last_state |-> hvac_action,
         last_update |-> clock]

\* StatisticaCentralaSensor.update, lines 121-131: s after an update at
\* clock reading `clock` that observes hvac_action
HeaterHistoryUpdate(s, clock, hvac_action) ==
    LET kept == IF Date(clock) # Date(s.last_update) THEN 0 ELSE s.hours_heating
        time_diff == clock - s.last_update
    IN  [hours_heating |-> IF s.last_state = "heating"
                           THEN kept + time_diff ELSE kept,
         last_state |-> hvac_action,
         last_update |-> clock]

\* faulty variant: a rollover leaves last_update at the old day
YesterdayUpdate_StaleDate(s, clock, hvac_action) ==
    LET time_diff == clock - s.last_update
        today == IF s.last_state = "heating"
                 THEN s.today_heating + time_diff ELSE s.today_heating
        new_day == Date(clock) # Date(s.last_update)
    IN  [state |-> IF new_day THEN today ELSE s.state,
         today_heating |-> IF new_day THEN 0 ELSE today,
         last_state |-> hvac_action,
         last_update |-> IF new_day THEN s.last_update ELSE clock]

\* faulty variant: the date check comes first, so the interval that crosses
\* midnight is credited to the new day
YesterdayUpdate_RollFirst(s, clock, hvac_action) ==
    LET time_diff == clock - s.last_update
        new_day == Date(clock) # Date(s.last_update)
        kept == IF new_day THEN 0 ELSE s.today_heating
    IN  [state |-> IF new_day THEN s.today_heating ELSE s.state,
         today_heating |-> IF s.last_state = "heating"
                           THEN kept + time_diff ELSE kept,
         last_state |-> hvac_action,
         last_update |-> clock]

\* StatisticaCentralaIeriSensor.update, lines 180-190
YesterdayUpdate(s, clock, hvac_action) ==
    LET time_diff == clock - s.last_update
        today == IF s.last_state = "heating"
                 THEN s.today_heating + time_diff ELSE s.today_heating
        new_day == Date(clock) # Date(s.last_update)
    IN  [state |-> IF new_day THEN today ELSE s.state,
         today_heating |-> IF new_day THEN 0 ELSE today,
         last_state |-> hvac_action,
         last_update |-> clock]

\* faulty variant: the elapsed time is taken as last_update - now
HeatingTimeUpdate_Reversed(s, clock, hvac_action) ==
    LET kept == IF Date(clock) # Date(s.last_update) THEN 0 ELSE s.hours_heating
        time_diff == s.last_update - clock
    IN  [hours_heating |-> IF s.last_state = "heating"
                           THEN kept + time_diff ELSE kept,
         last_state |-> hvac_action,
         last_update |-> clock]

\* DurataIncalzireSensor.update, lines 226-236
HeatingTimeUpdate(s, clock, hvac_action) ==
    LET kept == IF Date(clock) # Date(s.last_update) THEN 0 ELSE s.hours_heating
        time_diff == clock - s.last_update
    IN  [hours_heating |-> IF s.last_state = "heating"
                           THEN kept + time_diff ELSE kept,
         last_state |-> hvac_action,
         last_update |-> clock]

\* one poll of the sensor platform, the climate entity showing one of the
\* states cs: every sensor's update() runs, in the order of the list of
\* lines 31-36, at the same clock reading and seeing the same climate state;
\* Heating Time, the last, reads the state Thermostat State, the first, has
\* just published, or finds no state object of it (lines 219-223)
Poll(cs) ==
    /\ Len(scans) < MaxScans
    /\ \E c \in cs :
        /\ thermostat_state' = StareTermostatUpdate(c)
        /\ heater_history' =
               HeaterHistoryUpdate(heater_history, now, HvacAction(c, "unavailable"))
        /\ yesterday_history' =
               YesterdayUpdate(yesterday_history, now, HvacAction(c, "unknown"))
        /\ \E seen \in {StareTermostatUpdate(c), "unknown"} :
            /\ heating_time' = HeatingTimeUpdate(heating_time, now, seen)
            /\ reference' =
                   [heater_history |->
                        HeaterHistoryUpdate(reference.heater_history, now,
                                            HvacAction(c, "unavailable")),
                    yesterday_history |->
                        YesterdayUpdate(reference.yesterday_history, now,
                                        HvacAction(c, "unknown")),
                    heating_time |->
                        HeatingTimeUpdate(reference.heating_time, now, seen)]
        /\ scans' = Append(scans, [at |-> now, climate |-> c])
    /\ UNCHANGED <<now, ticks, thermo, pc, loc, restarts, persisted_bad,
                   init_failed, page, last_refresh>>

\* a poll that may find the climate entity in any state
Scan == Poll(ClimateStates)

NextSensors ==
    \/ Tick(SensorTickSteps)
    \/ Scan

SpecSensors == Init /\ [][NextSensors]_vars

\* a poll between two calls of the thermostat: the climate entity shows the
\* hvac_action of its fields as they are, or has no state object yet
PollClimate ==
    /\ AllIdle
    /\ Poll({HvacActionOf(current_operation_mode, is_heating,
                           current_temperature, target_temperature),
             "<absent>"})

\* the sensors poll the thermostat half an hour apart
DerivedTickSteps == {1800}

\* the status objects of the linked runs: every pair of flags
FlagBodies ==
    {b \in DictBodies :
        b.CH1currentSetPoint = "\"21.0\"" /\ b.CH1currentRoomTemp = "20"}

\* the thermostat is polled and switched, one call at a time; then the
\* sensors poll it as the calls left it
NextDerived ==
    \/ AllIdle /\ Tick(DerivedTickSteps)
    \/ ticks <= 1 /\ (Update(1) \/ TurnOff(1) \/ TurnOn(1))
    \/ Step(1, FlagBodies)
    \/ PollClimate

SpecDerived == Init /\ [][NextDerived]_vars

\* one hundredth of an hour, in seconds: the grain of round(hours, 2)
CentiHour == 36

\* round(hours, 2) of a total: the multiple of 0.01 h nearest to it; halfway
\* between two of them the binary value of the float decides, so either
Round2(secs) ==
    LET down == (secs \div CentiHour) * CentiHour
        rest == secs - down
    IN  IF 2 * rest < CentiHour THEN {down}
        ELSE IF 2 * rest > CentiHour THEN {down + CentiHour}
        ELSE {down, down + CentiHour}

\* StatisticaCentralaSensor after __init__ and async_added_to_hass, lines
\* 90-100: the total is read back from the published state, which is
\* round(hours, 2) (line 104), the other two fields from the attributes
HeaterHistoryRestored(s) ==
    {[hours_heating |-> h, last_update |-> s.last_update,
      last_state |-> s.last_state] : h \in Round2(s.hours_heating)}

\* StatisticaCentralaIeriSensor after __init__ and async_added_to_hass,
\* lines 147-159: both totals are read back as published, rounded (lines
\* 163 and 168)
YesterdayRestored(s) ==
    {[state |-> y, today_heating |-> td, last_update |-> s.last_update,
      last_state |-> s.last_state] :
        y \in Round2(s.state), td \in Round2(s.today_heating)}

\* Home Assistant restarts at clock reading now: every sensor is constructed
\* anew; the two RestoreEntity sensors then read back what they published
\* last, Thermostat State and Heating Time keep their constructor values
Restart ==
    /\ restarts < MaxRestarts
    /\ restarts' = restarts + 1
    /\ thermostat_state' = "unknown"
    /\ heater_history' \in HeaterHistoryRestored(heater_history)
    /\ yesterday_history' \in YesterdayRestored(yesterday_history)
    /\ heating_time' = [hours_heating |-> 0, last_update |-> now,
                        last_state |-> "unknown"]
    /\ persisted_bad' = [heater_history |-> "none", yesterday_history |-> "none"]
    /\ init_failed' = {}
    /\ UNCHANGED <<scans, reference, now, ticks, thermo, pc, loc, page,
                   last_refresh>>

\* StatisticaCentralaSensor after __init__ at clock reading `clock` and an
\* async_added_to_hass that raised at the persisted value `bad`: float() of
\* the state (line 95) or fromisoformat() of last_update (line 98).  What
\* was assigned before the exception stays, the rest is as constructed
HeaterHistoryUnparsable(s, clock, bad) ==
    {[hours_heating |-> h, last_update |-> clock, last_state |-> "unknown"] :
        h \in IF bad = "state" THEN {0} ELSE Round2(s.hours_heating)}

\* StatisticaCentralaIeriSensor likewise: float() of the state (line 152)
\* or of today_heating (line 155), or fromisoformat() of last_update (157)
YesterdayUnparsable(s, clock, bad) ==
    {[state |-> y, today_heating |-> td, last_update |-> clock,
      last_state |-> "unknown"] :
        y \in IF bad = "state" THEN {0} ELSE Round2(s.state),
        td \in IF bad \in {"state", "today_heating"}
               THEN {0} ELSE Round2(s.today_heating)}

\* a restart that finds a persisted record with a value that cannot be
\* parsed (a state of "unknown" or "unavailable", a last_update that is no
\* ISO timestamp) for at least one of the two restoring sensors: nothing in
\* async_added_to_hass catches the exception
RestartUnparsable ==
    /\ restarts < MaxRestarts
    /\ restarts' = restarts + 1
    /\ thermostat_state' = "unknown"
    /\ heating_time' = [hours_heating |-> 0, last_update |-> now,
                        last_state |-> "unknown"]
    /\ \E bad_h \in {"none", "state", "last_update"},
          bad_y \in {"none", "state", "today_heating", "last_update"} :
        /\ bad_h # "none" \/ bad_y # "none"
        /\ heater_history' \in
               (IF bad_h = "none" THEN HeaterHistoryRestored(heater_history)
                ELSE HeaterHistoryUnparsable(heater_history, now, bad_h))
        /\ yesterday_history' \in
               (IF bad_y = "none" THEN YesterdayRestored(yesterday_history)
                ELSE YesterdayUnparsable(yesterday_history, now, bad_y))
        /\ persisted_bad' = [heater_history |-> bad_h, yesterday_history |-> bad_y]
        /\ init_failed' = {k \in {"heater_history", "yesterday_history"} :
                               persisted_bad'[k] # "none"}
    /\ UNCHANGED <<scans, reference, now, ticks, thermo, pc, loc, page,
                   last_refresh>>

\* between restarts the platform polls every ScanInterval seconds or later
RestoreTickSteps == {ScanInterval, 3600}

NextRestore ==
    \/ Tick(RestoreTickSteps)
    \/ Scan
    \/ Restart

SpecRestore == Init /\ [][NextRestore]_vars

NextRestoreUnparsable ==
    \/ Tick(RestoreTickSteps)
    \/ Scan
    \/ RestartUnparsable

SpecRestoreUnparsable == Init /\ [][NextRestoreUnparsable]_vars

-----------------------------------------------------------------------------
(* Properties *)

Running(t) == pc[t] # "idle"
Done(t) == pc[t] = "done"

\* the requests of one kind a call has sent
Count(log, kind) == Cardinality({i \in 1..Len(log) : log[i].req = kind})

\* the age, at the start of the call, of the token the call found
StartAge(t) == loc[t].cur_timestamp - OrZero(loc[t].start_timestamp)

\* C1: a status read logs in if and only if it found no token or a token
\* older than 3600 s; then it logs in exactly once; a token aged 3600 s or
\* less is reused without a login request.
C1_RefreshIffExpired ==
    \A t \in Threads :
        loc[t].op = "update" =>
            LET expired == loc[t].start_token = None \/ StartAge(t) > 3600
            IN  /\ Count(loc[t].log, "login") <= (IF expired THEN 1 ELSE 0)
                /\ Done(t) => Count(loc[t].log, "login") = (IF expired THEN 1 ELSE 0)

\* a read that found a token aged exactly 3601 s ended after one login
C1_Witness ==
    \E t \in Threads :
        /\ Done(t) /\ loc[t].op = "update"
        /\ loc[t].start_token # None /\ StartAge(t) = 3601
        /\ Count(loc[t].log, "login") = 1

\* C2 (as claimed): no set POST is ever sent with a token older than 3600 s.
C2_SetNeverWithExpiredToken ==
    \A t \in Threads : \A i \in 1..Len(loc[t].log) :
        loc[t].log[i].req = "set" => loc[t].log[i].age <= 3600

\* C3: while a call runs, the stored token and timestamp differ from the ones
\* the call found only if its get_token() succeeded: the login was accepted,
\* the control page fetched and a token extracted.  After a rejected login
\* or a failed control step both are what they were.
C3_TokenKeptOnFailure ==
    \A t \in Threads :
        Running(t) =>
            /\ loc[t].refresh # "ok" =>
                   /\ token = loc[t].start_token
                   /\ token_timestamp = loc[t].start_timestamp
            /\ loc[t].refresh = "ok" =>
                   /\ Count(loc[t].log, "login") = 1
                   /\ Count(loc[t].log, "control") = 1
                   /\ token # None
                   /\ token_timestamp # None
                   /\ Val(token_timestamp) >= loc[t].cur_timestamp

\* a refresh failed at the control page and the earlier token is still held
C3_Witness ==
    \E t \in Threads :
        /\ Running(t) /\ loc[t].refresh = "failed"
        /\ Count(loc[t].log, "control") = 1
        /\ loc[t].start_token # None
        /\ token = loc[t].start_token /\ token_timestamp = loc[t].start_timestamp

\* C4 (as claimed): a call whose token refresh failed sends no status GET and
\* no set POST.
C4_NoRequestAfterFailedRefresh ==
    \A t \in Threads :
        loc[t].refresh = "failed" =>
            Count(loc[t].log, "get") = 0 /\ Count(loc[t].log, "set") = 0

\* inside get_token(): before the login POST or before the control GET
InGetToken(t) == pc[t] \in {"gt_login", "gt_control"}

\* C5 (as claimed): token refresh is mutually exclusive; two calls are never
\* inside get_token() at the same time.
C5_RefreshMutuallyExclusive ==
    \A t1, t2 \in Threads : InGetToken(t1) /\ InGetToken(t2) => t1 = t2

\* C6 (as claimed): update() never ends by raising.
C6_UpdateNeverRaises ==
    \A t \in Threads : loc[t].op = "update" => loc[t].result # "raised"

\* C9: a write keeps what it recorded locally, however the remote write went:
\* during and after set_temperature(t) the target temperature is t, after
\* turn_off the mode is OFF, after turn_on it is ON.
C9_NoRollback ==
    \A t \in Threads :
        /\ loc[t].op = "set_temperature" /\ loc[t].temperature # None
               => target_temperature = loc[t].temperature
        /\ loc[t].op = "turn_off" => current_operation_mode = Some("OFF")
        /\ loc[t].op = "turn_on" => current_operation_mode = Some("ON")

\* a set_temperature whose POST was answered with a failure status, the target
\* temperature differing from the one the device last reported
C9_Witness ==
    \E t \in Threads :
        /\ Done(t) /\ loc[t].op = "set_temperature" /\ loc[t].result = "fail"
        /\ Count(loc[t].log, "set") = 1
        /\ target_temperature = loc[t].temperature
        /\ is_heating # None

\* SalusThermostat defines no `available` property and sets no
\* _attr_available: the entity always reports the ClimateEntity default
available == TRUE

\* a status read that ended in one of its logged failures: no token after a
\* failed refresh, a status answer other than 200, or an empty body
ReadFailed(t) == Done(t) /\ loc[t].op = "update" /\ loc[t].result = "fail"

\* C7 (as claimed): once a successful read has set both temperatures, a failed
\* read marks the snapshot unavailable.
C7_FailedReadMarksUnavailable ==
    \A t \in Threads :
        ReadFailed(t) /\ current_temperature # None /\ target_temperature # None
            => ~available

\* C8: after a successful read the mode is OFF exactly when CH1heatOnOff is
\* "1" (the string, or the number 1, which str() turns into it) or missing,
\* and ON for every other value; is_heating is true exactly when
\* CH1heatOnOffStatus is "1", and false when it is missing; the raw flag and
\* the friendly status follow is_heating.
C8_ModeAndHeatingMapping ==
    \A t \in Threads :
        Done(t) /\ loc[t].op = "update" /\ loc[t].result = "ok" =>
            LET d == Val(loc[t].data)
            IN  /\ current_operation_mode =
                     Some(IF d.CH1heatOnOff \in {"\"1\"", "1", Missing}
                          THEN "OFF" ELSE "ON")
                /\ is_heating = Some(d.CH1heatOnOffStatus \in {"\"1\"", "1"})
                /\ is_heating = Some(heat_onoff_status_raw = Some("1"))
                /\ status = Some(IF Val(is_heating) THEN "ON" ELSE "OFF")

\* a successful read of a body without either flag: OFF and not heating
C8_Witness ==
    \E t \in Threads :
        /\ Done(t) /\ loc[t].op = "update" /\ loc[t].result = "ok"
        /\ Val(loc[t].data).CH1heatOnOff = Missing
        /\ Val(loc[t].data).CH1heatOnOffStatus = Missing
        /\ current_operation_mode = Some("OFF")
        /\ is_heating = Some(FALSE)

\* the elapsed time an update at clock reading `clock` credits to a sensor
\* whose previous observation was last_state at last_update
Credit(last_state, last_update, clock) ==
    IF last_state = "heating" THEN clock - last_update ELSE 0

\* C10: every update of every accumulator adds to the running total the time
\* since the previous observation exactly when the state recorded at the
\* previous observation was heating, and nothing otherwise, whatever state
\* it observes now; the total it adds to is the one kept for the day (0 when
\* the date changed), and the yesterday sensor moves the credited total to
\* the previous period when the date changed.
C10_CreditByPreviousState ==
    [][scans' # scans =>
        LET at == scans'[Len(scans')].at
            hh == heater_history
            yh == yesterday_history
            ht == heating_time
        IN  /\ heater_history'.hours_heating =
                   (IF Date(at) = Date(hh.last_update) THEN hh.hours_heating ELSE 0)
                   + Credit(hh.last_state, hh.last_update, at)
            /\ heating_time'.hours_heating =
                   (IF Date(at) = Date(ht.last_update) THEN ht.hours_heating ELSE 0)
                   + Credit(ht.last_state, ht.last_update, at)
            /\ LET today == yh.today_heating
                             + Credit(yh.last_state, yh.last_update, at)
               IN  IF Date(at) = Date(yh.last_update)
                   THEN /\ yesterday_history'.today_heating = today
                        /\ yesterday_history'.state = yh.state
                   ELSE /\ yesterday_history'.today_heating = 0
                        /\ yesterday_history'.state = today
    ]_vars

\* observations idle at t0, heating at t0 + 30 min, idle at t0 + 90 min on one
\* day: every running total is 1.0 hour after the third
C10_Witness ==
    /\ Len(scans) = 3
    /\ scans[1] = [at |-> StartTime, climate |-> "idle"]
    /\ scans[2] = [at |-> StartTime + 1800, climate |-> "heating"]
    /\ scans[3] = [at |-> StartTime + 5400, climate |-> "idle"]
    /\ Date(StartTime + 5400) = Date(StartTime)
    /\ heater_history.hours_heating = 3600
    /\ yesterday_history.today_heating = 3600
    /\ heating_time.hours_heating = 3600

\* the clock reading of the observation before the latest poll
PreviousAt == IF Len(scans) > 1 THEN scans[Len(scans) - 1].at ELSE StartTime

\* the latest poll observed a local date other than the previous observation's
RolledOver == Len(scans) > 0 /\ Date(scans[Len(scans)].at) # Date(PreviousAt)

\* C11 (as claimed): right after an update of a same-day accumulator (Heater
\* History, Heating Time) that observed a new local date, the running total
\* is 0: the crossing interval went to the old day.
C11_ZeroAfterRollover ==
    RolledOver =>
        heater_history.hours_heating = 0 /\ heating_time.hours_heating = 0

\* the running and previous-period totals of the three accumulators
Totals(hh, yh, ht) ==
    <<hh.hours_heating, yh.today_heating, yh.state, ht.hours_heating>>

\* C12 (as claimed): once restarted, every accumulator holds the totals that
\* an instance never restarted holds after the same observations.
C12_RestoreFidelity ==
    restarts > 0 =>
        Totals(heater_history, yesterday_history, heating_time)
            = Totals(reference.heater_history, reference.yesterday_history,
                     reference.heating_time)

\* the patterns that match somewhere in the page
Matching(h) == {h[i].pat : i \in 1..Len(h)} \ {0}

\* C13: the token extracted from a control page is the capture of the
\* leftmost match of the highest-priority pattern (lowest number, in the
\* order id=, name=, 'token': '..', "token":"..", token = "..") that matches
\* anywhere in the page, wherever lower-priority matches stand; a page
\* without a match yields no token.
C13_HighestPriorityWins ==
    LET m == Matching(ctrl_html)
    IN  IF m = {} THEN extracted = None
        ELSE LET best == CHOOSE p \in m : \A q \in m : p <= q
                 first == CHOOSE i \in 1..Len(ctrl_html) :
                              /\ ctrl_html[i].pat = best
                              /\ \A j \in 1..(i - 1) : ctrl_html[j].pat # best
             IN  extracted = Some(ctrl_html[first].val)

\* a lower-priority match stands before the higher-priority one that wins
C13_Witness ==
    \E i, j \in 1..Len(ctrl_html) :
        /\ i < j
        /\ ctrl_html[j].pat > 0
        /\ ctrl_html[i].pat > ctrl_html[j].pat
        /\ ctrl_html[i].val # ctrl_html[j].val
        /\ extracted = Some(ctrl_html[j].val)

\* the set POSTs of a call with locals l carry the payload the command asks
\* for, the local target being target
PayloadOk(l, target) ==
    \A i \in 1..Len(l.log) :
        l.log[i].req = "set" =>
            /\ l.log[i].heatOnOff = Some(IF l.op = "turn_off" THEN "1" ELSE "0")
            /\ l.log[i].currentSetPoint =
                   (IF l.op = "set_temperature" THEN l.temperature ELSE target)

\* C14: a set POST carries heatOnOff "1" exactly for turn_off and "0" for
\* turn_on and set_temperature; currentSetPoint is the requested temperature
\* for set_temperature and the local target for turn_off and turn_on; no
\* step of turn_off or turn_on changes the local target.
C14_SetPayload ==
    [][\A t \in Threads :
          /\ PayloadOk(loc'[t], target_temperature')
          /\ loc'[t].op \in {"turn_off", "turn_on"} =>
                 target_temperature' = target_temperature]_vars

\* turn_off has sent its POST: heatOnOff "1" and the target set before
C14_Witness ==
    \E t \in Threads :
        /\ loc[t].op = "turn_off"
        /\ target_temperature # None
        /\ \E i \in 1..Len(loc[t].log) :
            /\ loc[t].log[i].req = "set"
            /\ loc[t].log[i].heatOnOff = Some("1")
            /\ loc[t].log[i].currentSetPoint = target_temperature

\* C15 (as claimed): after a failed status read the heating fields
\* (is_heating, status, the raw heating flag) are unknown.
C15_FailedReadClearsHeating ==
    \A t \in Threads :
        ReadFailed(t) =>
            is_heating = None /\ status = None /\ heat_onoff_status_raw = None

\* JSON values float() accepts
Numeric(v) == v \in {"\"18.5\"", "\"21.0\"", "20"}

\* C16: a status answer of 200 with a non-empty object is read successfully
\* whatever its temperatures are: a temperature that is missing or cannot be
\* parsed becomes None, it alone; the other temperature, the mode and
\* is_heating are set from the answer.
C16_UnparsableTemperatureOnly ==
    \A t \in Threads :
        Done(t) /\ loc[t].op = "update" /\ loc[t].data # None
                /\ ~EmptyData(Val(loc[t].data)) =>
            LET d == Val(loc[t].data)
            IN  /\ loc[t].result = "ok"
                /\ (target_temperature = None) = ~Numeric(d.CH1currentSetPoint)
                /\ (current_temperature = None) = ~Numeric(d.CH1currentRoomTemp)
                /\ d.CH1currentSetPoint = "\"18.5\"" => target_temperature = Some(185)
                /\ d.CH1currentSetPoint = "\"21.0\"" => target_temperature = Some(210)
                /\ d.CH1currentRoomTemp = "20" => current_temperature = Some(200)
                /\ current_operation_mode =
                       Some(IF d.CH1heatOnOff = "\"0\"" THEN "ON" ELSE "OFF")
                /\ is_heating = Some(d.CH1heatOnOffStatus \in {"\"1\"", "1"})

\* a read whose set point cannot be parsed and whose room temperature can
C16_Witness ==
    \E t \in Threads :
        /\ Done(t) /\ loc[t].op = "update" /\ loc[t].result = "ok"
        /\ Val(loc[t].data).CH1currentSetPoint = "\"abc\""
        /\ Val(loc[t].data).CH1currentRoomTemp = "20"
        /\ target_temperature = None
        /\ current_temperature = Some(200)
        /\ current_operation_mode = Some("ON")

\* the positions of the requests of one kind in a call's trace
Positions(log, kind) == {i \in 1..Len(log) : log[i].req = kind}

\* C17: a call logs in at most once and fetches the control page at most
\* once, the login first; the control page is fetched only after the login
\* was answered with 200 or 302.
C17_OneLoginThenControl ==
    \A t \in Threads :
        LET logins == Positions(loc[t].log, "login")
            controls == Positions(loc[t].log, "control")
        IN  /\ Cardinality(logins) <= 1
            /\ Cardinality(controls) <= 1
            /\ \A c \in controls :
                /\ \E l \in logins : l < c
                /\ loc[t].login_resp \in {Some(200), Some(302)}

\* the control page was fetched after a login answered with 302
C17_Witness ==
    \E t \in Threads :
        /\ Positions(loc[t].log, "control") # {}
        /\ loc[t].login_resp = Some(302)

\* a poll is running, or has just ended, and the call before it ended with a
\* failed refresh
PollAfterFailedRefresh(t) ==
    Running(t) /\ loc[t].op = "update" /\ last_refresh = "failed"

\* C18: the poll that follows a call whose refresh failed logs in again
\* before anything else; when login and control page are answered correctly
\* (the refresh succeeds) and the status answer is 200 with a non-empty
\* object, that poll ends successfully with a token obtained during it and
\* the snapshot taken from the answer.
C18_NoLockout ==
    \A t \in Threads :
        PollAfterFailedRefresh(t) =>
            /\ pc[t] = "gt_login" \/ Positions(loc[t].log, "login") = {1}
            /\ Done(t) /\ loc[t].refresh = "ok" /\ loc[t].data # None
                       /\ ~EmptyData(Val(loc[t].data)) =>
                   /\ loc[t].result = "ok"
                   /\ token # None /\ token_timestamp # None
                   /\ Val(token_timestamp) >= loc[t].cur_timestamp
                   /\ current_operation_mode # None
                   /\ is_heating =
                          Some(Val(loc[t].data).CH1heatOnOffStatus \in {"\"1\"", "1"})

\* the poll after a failed refresh has refreshed the token and read the status
C18_Witness ==
    \E t \in Threads :
        /\ PollAfterFailedRefresh(t) /\ Done(t)
        /\ loc[t].refresh = "ok" /\ loc[t].result = "ok"
        /\ loc[t].start_token # token

\* C19: an update of the yesterday accumulator that observes a new local
\* date leaves as previous-period total the today total plus the interval
\* just elapsed (when the previous state was heating) and a today total of
\* 0; an update on the date of the last observation leaves the
\* previous-period total as it was.
C19_YesterdayRollover ==
    [][scans' # scans =>
        LET at == scans'[Len(scans')].at
            yh == yesterday_history
        IN  IF Date(at) # Date(yh.last_update)
            THEN /\ yesterday_history'.state =
                        yh.today_heating + Credit(yh.last_state, yh.last_update, at)
                 /\ yesterday_history'.today_heating = 0
            ELSE yesterday_history'.state = yh.state
    ]_vars

\* a rollover that moved a day's total, the crossing interval included, to
\* the previous period: heating at the observation before midnight
C19_Witness ==
    /\ RolledOver
    /\ Len(scans) > 1
    /\ scans[Len(scans) - 1].climate = "heating"
    /\ yesterday_history.state >= scans[Len(scans)].at - PreviousAt
    /\ yesterday_history.state > 0
    /\ yesterday_history.today_heating = 0

\* C20: the clock never running backwards, no update leaves a running total
\* (Heater History, the today total of the yesterday accumulator, Heating
\* Time) negative, and an update on the date of the accumulator's last
\* observation never leaves it lower than it was.
C20_RunningTotalMonotone ==
    [][scans' # scans =>
        LET at == scans'[Len(scans')].at
        IN  /\ heater_history'.hours_heating >= 0
            /\ yesterday_history'.today_heating >= 0
            /\ heating_time'.hours_heating >= 0
            /\ Date(at) = Date(heater_history.last_update) =>
                   heater_history'.hours_heating >= heater_history.hours_heating
            /\ Date(at) = Date(yesterday_history.last_update) =>
                   yesterday_history'.today_heating
                       >= yesterday_history.today_heating
            /\ Date(at) = Date(heating_time.last_update) =>
                   heating_time'.hours_heating >= heating_time.hours_heating
    ]_vars

\* two updates on one date, heating in between: every running total has grown
C20_Witness ==
    /\ Len(scans) > 1
    /\ ~RolledOver
    /\ scans[Len(scans) - 1].climate = "heating"
    /\ heater_history.hours_heating >= scans[Len(scans)].at - PreviousAt
    /\ yesterday_history.today_heating >= scans[Len(scans)].at - PreviousAt
    /\ heating_time.hours_heating >= scans[Len(scans)].at - PreviousAt
    /\ scans[Len(scans)].at > PreviousAt

\* the clock reading of the latest poll, StartTime before the first
LatestAt == IF scans = << >> THEN StartTime ELSE scans[Len(scans)].at

\* C21: a date change rolls over once: an update on the date of the
\* observation before it (the first update of a new date was that
\* observation, or an earlier one) does not reset a running total, which
\* grows by the credited interval only, and leaves the previous-period total
\* as it is; at the clock reading of that observation it changes no total.
C21_RolloverOnce ==
    [][scans' # scans =>
        LET at == scans'[Len(scans')].at
            hh == heater_history
            yh == yesterday_history
        IN  Date(at) = Date(LatestAt) =>
                /\ yesterday_history'.state = yh.state
                /\ heater_history'.hours_heating =
                       hh.hours_heating + Credit(hh.last_state, LatestAt, at)
                /\ yesterday_history'.today_heating =
                       yh.today_heating + Credit(yh.last_state, LatestAt, at)
                /\ at = LatestAt =>
                       /\ heater_history'.hours_heating = hh.hours_heating
                       /\ yesterday_history'.today_heating = yh.today_heating
    ]_vars

\* heating up to the first update of a new date, then a second update at the
\* same clock reading: the totals of the first are still there
C21_Witness ==
    /\ Len(scans) > 2
    /\ scans[Len(scans) - 2].climate = "heating"
    /\ Date(scans[Len(scans) - 1].at) # Date(scans[Len(scans) - 2].at)
    /\ scans[Len(scans)].at = scans[Len(scans) - 1].at
    /\ yesterday_history.state > 0
    /\ yesterday_history.today_heating = 0

\* C22 (as claimed): a persisted record with a value that cannot be parsed
\* does not make the initialization of an accumulator fail.
C22_InitNeverFails ==
    \A k \in {"heater_history", "yesterday_history"} :
        persisted_bad[k] # "none" => k \notin init_failed

\* the total an accumulator keeps for the day of an update at `at`
KeptTotal(total, last_update, at) ==
    IF Date(at) = Date(last_update) THEN total ELSE 0

====
